---------------------------- MODULE Spec2Model ----------------------------
(***************************************************************************)
(* Model of src/src/main.rs: the Span / TraceId / DateTime data model, its *)
(* serde implementations, the postcard binary framing they are driven      *)
(* through, the random generator and the round-trip loop of main().        *)
(*                                                                         *)
(* Representation.                                                         *)
(*   u8        a number in 0..255                                          *)
(*   [u8; 16]  a sequence of 16 bytes                                      *)
(*   String    the sequence of its UTF-8 bytes (len() is Len)              *)
(*   i64, u64  a sequence of 64 bits, least significant first (TLC's       *)
(*             integers are 32 bits wide, so 64-bit values are kept as bit *)
(*             vectors and every operation on them is done bit by bit)     *)
(*   Result    [kind |-> "Ok" | "Err" | "Panic", val |-> .., err |-> ..]   *)
(***************************************************************************)
EXTENDS Integers, Sequences, FiniteSets, TLC

VARIABLES
    pc,         \* main: the statement to run next; a single function: "call", then "return"
    state,      \* main: "RUNNING" while the loop runs, "HALTED" after a panic
    reason,     \* main: which unwrap() or assert_eq! panicked ("none" while running)
    spans,      \* main: let spans (<<>> while not bound)
    output,     \* main: let output (<<>> while not bound)
    out,        \* main: let out (<<>> while not bound)
    call,       \* a single function: the function applied and its argument
    ret         \* the Result the last call returned (kind "Pending" before any)

vars == <<pc, state, reason, spans, output, out, call, ret>>

-----------------------------------------------------------------------------
(* Bounds of the model.                                                    *)

\* longest batch the model draws (the program draws up to RANDOM_SPANS_MAX)
MaxBatchLen == 2
\* how many bytes longer than BASE64_LENGTH an input string may get
MaxExtraLen == 2

-----------------------------------------------------------------------------
(* Results.                                                                *)

\* an error value: its variant, the two lengths a length error carries, the cause
\* a wrapped error carries
Error(name) == [error |-> name, expected |-> 0, actual |-> 0, cause |-> "none"]
NoError == Error("none")

Ok(v) == [kind |-> "Ok", val |-> v, err |-> NoError]
Err(e) == [kind |-> "Err", val |-> <<>>, err |-> e]
Panic(e) == [kind |-> "Panic", val |-> <<>>, err |-> Error(e)]

-----------------------------------------------------------------------------
(* 64-bit integers as bit vectors.                                         *)

I64_BITS == 64

Bit == {0, 1}
Xor(a, b) == (a + b) % 2

\* the bit vector of a natural number below 2^31
NatToBits(n) == [i \in 1..I64_BITS |-> IF i <= 31 THEN (n \div (2 ^ (i - 1))) % 2 ELSE 0]

\* a bit vector whose set bits all lie below bit 31
FitsNat(u) == \A i \in 32..I64_BITS : u[i] = 0

RECURSIVE BitsToNatFrom(_, _)
BitsToNatFrom(u, i) == IF i > 31 THEN 0 ELSE u[i] + 2 * BitsToNatFrom(u, i + 1)
BitsToNat(u) == BitsToNatFrom(u, 1)

\* the i64 whose two's complement little-endian bytes are b
I64FromLeBytes(b) == [i \in 1..I64_BITS |-> (b[((i - 1) \div 8) + 1] \div (2 ^ ((i - 1) % 8))) % 2]

OneHot(k) == [i \in 1..I64_BITS |-> IF i = k + 1 THEN 1 ELSE 0]      \* 2^k (k = 63: i64::MIN)
LowOnes(k) == [i \in 1..I64_BITS |-> IF i <= k THEN 1 ELSE 0]        \* 2^k - 1 (k = 63: i64::MAX)
BitNot(u) == [i \in 1..I64_BITS |-> 1 - u[i]]                        \* -u - 1

I64_MIN == OneHot(63)
I64_MAX == LowOnes(63)
I64_ZERO == LowOnes(0)

IsNegative(n) == n[I64_BITS] = 1

-----------------------------------------------------------------------------
(* postcard: varint and zigzag.                                            *)

\* (n << 1) ^ (n >> 63), as u64
ZigZagEncode(n) == [i \in 1..I64_BITS |-> Xor(IF i = 1 THEN 0 ELSE n[i - 1], n[I64_BITS])]

\* (u >> 1) ^ -(u & 1), as i64
ZigZagDecode(u) == [i \in 1..I64_BITS |-> Xor(IF i = I64_BITS THEN 0 ELSE u[i + 1], u[1])]

BitAt(u, i) == IF i <= I64_BITS THEN u[i] ELSE 0

\* the 7 bits of group g (counted from 0) as a number
Group7(u, g) ==
    BitAt(u, 7 * g + 1) + 2 * BitAt(u, 7 * g + 2) + 4 * BitAt(u, 7 * g + 3)
    + 8 * BitAt(u, 7 * g + 4) + 16 * BitAt(u, 7 * g + 5) + 32 * BitAt(u, 7 * g + 6)
    + 64 * BitAt(u, 7 * g + 7)

\* value >> 7*(g+1) is zero
NoHigherGroup(u, g) == \A i \in (7 * (g + 1) + 1)..I64_BITS : u[i] = 0

VARINT_MAX_U64 == 10

\* postcard varint_u64: 7 bits a byte, low group first, 0x80 set on all but the last
RECURSIVE VarintEncodeFrom(_, _)
VarintEncodeFrom(u, g) ==
    IF NoHigherGroup(u, g)
    THEN <<Group7(u, g)>>
    ELSE <<Group7(u, g) + 128>> \o VarintEncodeFrom(u, g + 1)

VarintEncode(u) == VarintEncodeFrom(u, 0)

\* the bits of byte b's low 7 bits put at group g of acc (bits past 64 are shifted out)
OrGroup7(acc, b, g) ==
    [i \in 1..I64_BITS |->
        IF i > 7 * g /\ i <= 7 * g + 7
        THEN ((b % 128) \div (2 ^ (i - 7 * g - 1))) % 2
        ELSE acc[i]]

\* postcard try_take_varint_u64 at position p of the input: Ok(<<value, next position>>)
RECURSIVE VarintDecodeFrom(_, _, _, _)
VarintDecodeFrom(bytes, p, g, acc) ==
    IF g >= VARINT_MAX_U64 THEN Err(Error("DeserializeBadVarint"))
    ELSE IF p > Len(bytes) THEN Err(Error("DeserializeUnexpectedEnd"))
    ELSE LET b == bytes[p]
             nacc == OrGroup7(acc, b, g)
         IN IF b < 128
            THEN IF g = VARINT_MAX_U64 - 1 /\ b > 1
                 THEN Err(Error("DeserializeBadVarint"))
                 ELSE Ok(<<nacc, p + 1>>)
            ELSE VarintDecodeFrom(bytes, p + 1, g + 1, nacc)

VarintDecode(bytes, p) == VarintDecodeFrom(bytes, p, 0, I64_ZERO)

-----------------------------------------------------------------------------
(* UTF-8 (core::str::from_utf8).                                           *)

IsCont(b) == b >= 128 /\ b <= 191

RECURSIVE IsUtf8From(_, _)
IsUtf8From(s, p) ==
    IF p > Len(s) THEN TRUE
    ELSE LET b == s[p]
             Has(k) == p + k <= Len(s)
         IN IF b < 128 THEN IsUtf8From(s, p + 1)
            ELSE IF b >= 194 /\ b <= 223
                 THEN Has(1) /\ IsCont(s[p + 1]) /\ IsUtf8From(s, p + 2)
            ELSE IF b >= 224 /\ b <= 239
                 THEN /\ Has(2)
                      /\ IsCont(s[p + 1]) /\ IsCont(s[p + 2])
                      /\ (b = 224 => s[p + 1] >= 160)
                      /\ (b = 237 => s[p + 1] <= 159)
                      /\ IsUtf8From(s, p + 3)
            ELSE IF b >= 240 /\ b <= 244
                 THEN /\ Has(3)
                      /\ IsCont(s[p + 1]) /\ IsCont(s[p + 2]) /\ IsCont(s[p + 3])
                      /\ (b = 240 => s[p + 1] >= 144)
                      /\ (b = 244 => s[p + 1] <= 143)
                      /\ IsUtf8From(s, p + 4)
            ELSE FALSE

IsUtf8(s) == IsUtf8From(s, 1)

\* s.chars().count(): every byte that is not a continuation byte starts a character
CharCount(s) == Cardinality({i \in 1..Len(s) : ~IsCont(s[i])})

-----------------------------------------------------------------------------
(* base64: the STANDARD engine (alphabet A-Z a-z 0-9 + /, padding written  *)
(* on encode and required, canonical, on decode; no trailing bits).        *)

PAD == 61   \* '='

\* the symbol of a 6-bit value
B64Symbol(v) ==
    IF v < 26 THEN 65 + v
    ELSE IF v < 52 THEN 97 + (v - 26)
    ELSE IF v < 62 THEN 48 + (v - 52)
    ELSE IF v = 62 THEN 43
    ELSE 47

INVALID_VALUE == 255

\* the 6-bit value of a symbol, INVALID_VALUE for every other byte
B64Value(c) ==
    IF c >= 65 /\ c <= 90 THEN c - 65
    ELSE IF c >= 97 /\ c <= 122 THEN c - 97 + 26
    ELSE IF c >= 48 /\ c <= 57 THEN c - 48 + 52
    ELSE IF c = 43 THEN 62
    ELSE IF c = 47 THEN 63
    ELSE INVALID_VALUE

RECURSIVE BASE64_STANDARD_encode(_)
BASE64_STANDARD_encode(bytes) ==
    IF Len(bytes) = 0 THEN <<>>
    ELSE IF Len(bytes) = 1
    THEN <<B64Symbol(bytes[1] \div 4), B64Symbol((bytes[1] % 4) * 16), PAD, PAD>>
    ELSE IF Len(bytes) = 2
    THEN <<B64Symbol(bytes[1] \div 4),
           B64Symbol((bytes[1] % 4) * 16 + bytes[2] \div 16),
           B64Symbol((bytes[2] % 16) * 4), PAD>>
    ELSE <<B64Symbol(bytes[1] \div 4),
           B64Symbol((bytes[1] % 4) * 16 + bytes[2] \div 16),
           B64Symbol((bytes[2] % 16) * 4 + bytes[3] \div 64),
           B64Symbol(bytes[3] % 64)>>
         \o BASE64_STANDARD_encode(SubSeq(bytes, 4, Len(bytes)))

\* the number of '=' the input ends with
RECURSIVE TrailingPads(_)
TrailingPads(s) ==
    IF Len(s) > 0 /\ s[Len(s)] = PAD THEN 1 + TrailingPads(SubSeq(s, 1, Len(s) - 1)) ELSE 0

\* the bytes of a run of symbols: 4 symbols give 3 bytes, 3 give 2, 2 give 1
RECURSIVE B64Bytes(_)
B64Bytes(d) ==
    IF Len(d) < 2 THEN <<>>
    ELSE LET v1 == B64Value(d[1])
             v2 == B64Value(d[2])
         IN IF Len(d) = 2 THEN <<v1 * 4 + v2 \div 16>>
            ELSE LET v3 == B64Value(d[3])
                 IN IF Len(d) = 3
                    THEN <<v1 * 4 + v2 \div 16, (v2 % 16) * 16 + v3 \div 4>>
                    ELSE <<v1 * 4 + v2 \div 16, (v2 % 16) * 16 + v3 \div 4,
                           (v3 % 4) * 64 + B64Value(d[4])>>
                         \o B64Bytes(SubSeq(d, 5, Len(d)))

\* the bits of the last symbol that no output byte takes
TrailingBits(d) ==
    IF Len(d) % 4 = 2 THEN B64Value(d[Len(d)]) % 16
    ELSE IF Len(d) % 4 = 3 THEN B64Value(d[Len(d)]) % 4
    ELSE 0

\* Engine::decode of the whole input: Ok(bytes) or Err(DecodeError)
BASE64_STANDARD_decode(s) ==
    LET p == TrailingPads(s)
        d == SubSeq(s, 1, Len(s) - p)
    IN IF \E i \in 1..Len(d) : B64Value(d[i]) = INVALID_VALUE THEN Err(Error("InvalidByte"))
       ELSE IF p > 2 \/ (p > 0 /\ Len(d) % 4 < 2) THEN Err(Error("InvalidByte"))
       ELSE IF Len(d) % 4 = 1 THEN Err(Error("InvalidLength"))
       ELSE IF (Len(d) + p) % 4 # 0 THEN Err(Error("InvalidPadding"))
       ELSE IF TrailingBits(d) # 0 THEN Err(Error("InvalidLastSymbol"))
       ELSE Ok(B64Bytes(d))

\* Engine::decode_slice_unchecked into a zeroed buffer of n bytes: the buffer on
\* success (the count it returns is dropped by the caller), the DecodeError, or the
\* panic the engine documents for a buffer too small for the decoded data
decode_slice_unchecked(s, n) ==
    LET r == BASE64_STANDARD_decode(s)
    IN IF r.kind = "Err" THEN r
       ELSE IF Len(r.val) > n THEN Panic("output slice too small")
       ELSE Ok([i \in 1..n |-> IF i <= Len(r.val) THEN r.val[i] ELSE 0])


-----------------------------------------------------------------------------
(* DateTime, TraceId, Span.                                                *)

DateTime_from_timestamp_nanos(nanoseconds) == [timestamp_nanos |-> nanoseconds]
DateTime_into_timestamp_nanos(self) == self.timestamp_nanos

TRACE_ID_BYTES == 16
BASE64_LENGTH == 24

TraceId_new(bytes) == bytes

\* serde_datetime::serialize as it would be with serialize_i32(nanos as i32): the
\* low 32 bits, sign-extended
serde_datetime_serialize_I32(datetime) ==
    [i \in 1..I64_BITS |->
        IF i <= 32 THEN datetime.timestamp_nanos[i] ELSE datetime.timestamp_nanos[32]]

\* serde_datetime::serialize: the i64 handed to serializer.serialize_i64
serde_datetime_serialize(datetime) == DateTime_into_timestamp_nanos(datetime)

\* serde_datetime::deserialize, given what i64's Deserialize returned
serde_datetime_deserialize(i64_result) ==
    IF i64_result.kind # "Ok" THEN i64_result
    ELSE Ok(DateTime_from_timestamp_nanos(i64_result.val))

\* impl Serialize for TraceId as it would be with the padding left out
\* (BASE64_STANDARD_NO_PAD)
TraceId_serialize_NoPad(self) ==
    LET text == BASE64_STANDARD_encode(self)
    IN SubSeq(text, 1, Len(text) - TrailingPads(text))

\* impl Serialize for TraceId: the str handed to serializer.serialize_str
TraceId_serialize(self) == BASE64_STANDARD_encode(self)

\* Engine::decode_slice: as decode_slice_unchecked, after refusing a buffer smaller
\* than its estimate of the decoded length, 3 bytes for every 4 symbols or part of
decode_slice(s, n) ==
    IF n < ((Len(s) + 3) \div 4) * 3 THEN Err(Error("OutputSliceTooSmall"))
    ELSE decode_slice_unchecked(s, n)

\* impl Deserialize for TraceId as it would be with the checked decode_slice
TraceId_deserialize_Checked(string_result) ==
    IF string_result.kind # "Ok" THEN string_result
    ELSE LET b64trace_id == string_result.val
         IN IF Len(b64trace_id) # BASE64_LENGTH
            THEN Err([error |-> "LengthMismatch", expected |-> BASE64_LENGTH,
                      actual |-> Len(b64trace_id), cause |-> "none"])
            ELSE LET r == decode_slice(b64trace_id, TRACE_ID_BYTES)
                 IN IF r.kind = "Err"
                    THEN Err([error |-> "DecodeError", expected |-> 0, actual |-> 0,
                              cause |-> r.err.error])
                    ELSE r

\* impl Deserialize for TraceId as it would be with the length check written
\* `<` for `!=`
TraceId_deserialize_TooShortOnly(string_result) ==
    IF string_result.kind # "Ok" THEN string_result
    ELSE LET b64trace_id == string_result.val
         IN IF Len(b64trace_id) < BASE64_LENGTH
            THEN Err([error |-> "LengthMismatch", expected |-> BASE64_LENGTH,
                      actual |-> Len(b64trace_id), cause |-> "none"])
            ELSE LET r == decode_slice_unchecked(b64trace_id, TRACE_ID_BYTES)
                 IN IF r.kind = "Err"
                    THEN Err([error |-> "DecodeError", expected |-> 0, actual |-> 0,
                              cause |-> r.err.error])
                    ELSE r

\* impl Deserialize for TraceId, given what String::deserialize returned
TraceId_deserialize(string_result) ==
    IF string_result.kind # "Ok" THEN string_result
    ELSE LET b64trace_id == string_result.val
         IN IF Len(b64trace_id) # BASE64_LENGTH
            THEN Err([error |-> "LengthMismatch", expected |-> BASE64_LENGTH,
                      actual |-> Len(b64trace_id), cause |-> "none"])
            ELSE LET r == decode_slice_unchecked(b64trace_id, TRACE_ID_BYTES)
                 IN IF r.kind = "Err"
                    THEN Err([error |-> "DecodeError", expected |-> 0, actual |-> 0,
                              cause |-> r.err.error])
                    ELSE r

-----------------------------------------------------------------------------
(* The derived PartialEq and Ord.                                          *)

\* [u8; 16] and Vec equality: same length, equal element by element
SeqEq(a, b) == Len(a) = Len(b) /\ \A i \in 1..Len(a) : a[i] = b[i]

\* Ord for [u8; 16]: the first differing byte decides
RECURSIVE BytesCmpFrom(_, _, _)
BytesCmpFrom(a, b, i) ==
    IF i > Len(a) THEN "Equal"
    ELSE IF a[i] < b[i] THEN "Less"
    ELSE IF a[i] > b[i] THEN "Greater"
    ELSE BytesCmpFrom(a, b, i + 1)

TraceId_cmp(a, b) == BytesCmpFrom(a, b, 1)

\* unsigned comparison of the bits i, i-1, .., 1
RECURSIVE BitsCmpFrom(_, _, _)
BitsCmpFrom(a, b, i) ==
    IF i < 1 THEN "Equal"
    ELSE IF a[i] < b[i] THEN "Less"
    ELSE IF a[i] > b[i] THEN "Greater"
    ELSE BitsCmpFrom(a, b, i - 1)

\* Ord for i64: two's complement, so the sign bit decides first and the other way
I64_cmp(a, b) ==
    IF a[I64_BITS] # b[I64_BITS]
    THEN IF a[I64_BITS] = 1 THEN "Less" ELSE "Greater"
    ELSE BitsCmpFrom(a, b, I64_BITS - 1)

DateTime_cmp(a, b) == I64_cmp(a.timestamp_nanos, b.timestamp_nanos)
DateTime_eq(a, b) == I64_cmp(a.timestamp_nanos, b.timestamp_nanos) = "Equal"

\* #[derive(Ord)] for Span as it would be with span_timestamp declared first
Span_cmp_TimestampFirst(a, b) ==
    IF DateTime_cmp(a.span_timestamp, b.span_timestamp) # "Equal"
    THEN DateTime_cmp(a.span_timestamp, b.span_timestamp)
    ELSE TraceId_cmp(a.trace_id, b.trace_id)

\* #[derive(Ord)] for Span: the fields in declaration order
Span_cmp(a, b) ==
    IF TraceId_cmp(a.trace_id, b.trace_id) # "Equal"
    THEN TraceId_cmp(a.trace_id, b.trace_id)
    ELSE DateTime_cmp(a.span_timestamp, b.span_timestamp)

\* #[derive(PartialEq)] for Span
Span_eq(a, b) ==
    SeqEq(a.trace_id, b.trace_id) /\ DateTime_eq(a.span_timestamp, b.span_timestamp)

\* PartialEq for Vec<Span>
VecSpan_eq(a, b) == Len(a) = Len(b) /\ \A i \in 1..Len(a) : Span_eq(a[i], b[i])

-----------------------------------------------------------------------------
(* postcard: the serializer and deserializer calls the impls make.         *)

postcard_serialize_str(s) == VarintEncode(NatToBits(Len(s))) \o s
postcard_serialize_i64(n) == VarintEncode(ZigZagEncode(n))

\* Span's Serialize as it would be writing span_timestamp before trace_id
Span_serialize_TimestampFirst(span) ==
    postcard_serialize_i64(serde_datetime_serialize(span.span_timestamp))
    \o postcard_serialize_str(TraceId_serialize(span.trace_id))

\* Span's Serialize as it would be with the trace id written as its 16 raw bytes
Span_serialize_RawTraceId(span) ==
    span.trace_id \o postcard_serialize_i64(serde_datetime_serialize(span.span_timestamp))

\* #[derive(Serialize)] for Span under postcard: a struct is its fields in order
Span_serialize(span) ==
    postcard_serialize_str(TraceId_serialize(span.trace_id))
    \o postcard_serialize_i64(serde_datetime_serialize(span.span_timestamp))

RECURSIVE SerializeElements(_, _)
SerializeElements(batch, i) ==
    IF i > Len(batch) THEN <<>>
    ELSE Span_serialize(batch[i]) \o SerializeElements(batch, i + 1)

\* postcard::to_allocvec(&spans): the length as a varint, then every element
to_allocvec(batch) == Ok(VarintEncode(NatToBits(Len(batch))) \o SerializeElements(batch, 1))

\* String::deserialize at position p: Ok(<<string, next position>>)
postcard_deserialize_string(bytes, p) ==
    LET l == VarintDecode(bytes, p)
    IN IF l.kind # "Ok" THEN l
       ELSE LET q == l.val[2]
            IN IF ~FitsNat(l.val[1]) \/ BitsToNat(l.val[1]) > Len(bytes) - q + 1
               THEN Err(Error("DeserializeUnexpectedEnd"))
               ELSE LET s == SubSeq(bytes, q, q + BitsToNat(l.val[1]) - 1)
                    IN IF IsUtf8(s) THEN Ok(<<s, q + Len(s)>>)
                       ELSE Err(Error("DeserializeBadUtf8"))

\* i64::deserialize at position p: Ok(<<i64, next position>>)
postcard_deserialize_i64(bytes, p) ==
    LET v == VarintDecode(bytes, p)
    IN IF v.kind # "Ok" THEN v ELSE Ok(<<ZigZagDecode(v.val[1]), v.val[2]>>)

\* #[derive(Deserialize)] for Span under postcard: Ok(<<span, next position>>)
Span_deserialize(bytes, p) ==
    LET s == postcard_deserialize_string(bytes, p)
        t == TraceId_deserialize(IF s.kind = "Ok" THEN Ok(s.val[1]) ELSE s)
    IN IF t.kind # "Ok" THEN t
       ELSE LET n == postcard_deserialize_i64(bytes, s.val[2])
                d == serde_datetime_deserialize(IF n.kind = "Ok" THEN Ok(n.val[1]) ELSE n)
            IN IF d.kind # "Ok" THEN d
               ELSE Ok(<<[trace_id |-> t.val, span_timestamp |-> d.val], n.val[2]>>)

RECURSIVE DeserializeElements(_, _, _, _)
DeserializeElements(bytes, p, n, acc) ==
    IF n = 0 THEN Ok(acc)
    ELSE LET e == Span_deserialize(bytes, p)
         IN IF e.kind # "Ok" THEN e
            ELSE DeserializeElements(bytes, e.val[2], n - 1, Append(acc, e.val[1]))

\* postcard::from_bytes::<Vec<Span>>: the length, then that many elements; bytes
\* left over are ignored
from_bytes(bytes) ==
    LET l == VarintDecode(bytes, 1)
    IN IF l.kind # "Ok" THEN l
       ELSE IF ~FitsNat(l.val[1]) THEN Err(Error("DeserializeUnexpectedEnd"))
       ELSE DeserializeElements(bytes, l.val[2], BitsToNat(l.val[1]), <<>>)


-----------------------------------------------------------------------------
(* The values the model draws.                                             *)

\* rng.fill(&mut id) can give any 16 bytes; the model draws from these:
\* all bytes equal (m = 0), rising by one (m = 1: 1, 2, .., 16 for a = 0), by 17
TraceIdSamples ==
    {[i \in 1..TRACE_ID_BYTES |-> (a + i * m) % 256] : a \in 0..255, m \in {0, 1, 17}}

TraceIdZero == [i \in 1..TRACE_ID_BYTES |-> 0]
TraceIdRamp == [i \in 1..TRACE_ID_BYTES |-> i]
TraceIdOnes == [i \in 1..TRACE_ID_BYTES |-> 255]
\* equal to TraceIdZero but for its last byte
TraceIdLast == [i \in 1..TRACE_ID_BYTES |-> IF i = TRACE_ID_BYTES THEN 1 ELSE 0]

FewTraceIds == {TraceIdZero, TraceIdRamp, TraceIdOnes}

\* 1_700_000_000_000_000_000
Nanos2023 == I64FromLeBytes(<<0, 0, 42, 54, 254, 156, 151, 23>>)

\* every 2^k, 2^k - 1, -2^k - 1 and -2^k of an i64: all varint lengths, both signs,
\* i64::MIN and i64::MAX
I64Samples ==
    UNION {{OneHot(k), LowOnes(k), BitNot(OneHot(k)), BitNot(LowOnes(k))} : k \in 0..(I64_BITS - 1)}
    \cup {Nanos2023}

\* i64::MIN, -1, 0, 64, 1.7e18, i64::MAX
FewI64 == {I64_MIN, BitNot(I64_ZERO), I64_ZERO, OneHot(6), Nanos2023, I64_MAX}

\* rng.gen_range(lo..=hi), over the values the model draws
gen_range(lo, hi) ==
    {n \in FewI64 : I64_cmp(lo, n) # "Greater" /\ I64_cmp(n, hi) # "Greater"}

-----------------------------------------------------------------------------
(* The random generator.                                                   *)

RANDOM_SPANS_MAX == 10000

Min(a, b) == IF a < b THEN a ELSE b

\* TraceId::random
TraceId_random == FewTraceIds

\* Span::random
Span_random ==
    {[trace_id |-> t, span_timestamp |-> DateTime_from_timestamp_nanos(n)] :
        t \in TraceId_random, n \in gen_range(I64_ZERO, I64_MAX)}

\* random_spans as it would be with gen_range(0..=10000)
random_spans_FromZero ==
    UNION {[1..length -> Span_random] : length \in 0..Min(RANDOM_SPANS_MAX, MaxBatchLen)}

\* random_spans: a length in 1..=10000 (here up to MaxBatchLen), then that many spans
random_spans ==
    UNION {[1..length -> Span_random] : length \in 1..Min(RANDOM_SPANS_MAX, MaxBatchLen)}

-----------------------------------------------------------------------------
(* main: one action a statement of the loop body.  A panic (an unwrap() of *)
(* an Err, a failed assert_eq!, a panic inside a call) ends the process:   *)
(* state becomes "HALTED" and no action is enabled any more.  The locals   *)
(* are dropped at the end of the loop body.                                *)

Pending == [kind |-> "Pending", val |-> <<>>, err |-> NoError]
NoCall == [fn |-> "main", arg |-> <<>>]

Halt(why) ==
    /\ state' = "HALTED"
    /\ reason' = why
    /\ UNCHANGED pc

Init ==
    /\ pc = "random_spans"
    /\ state = "RUNNING"
    /\ reason = "none"
    /\ spans = <<>>
    /\ output = <<>>
    /\ out = <<>>
    /\ call = NoCall
    /\ ret = Pending

\* let spans = random_spans();
Generate ==
    /\ state = "RUNNING" /\ pc = "random_spans"
    /\ \E batch \in random_spans : spans' = batch
    /\ pc' = "to_allocvec"
    /\ UNCHANGED <<state, reason, output, out, call, ret>>

\* let output: Vec<u8> = <encoded>.unwrap();
EncodeUnwrap(encoded) ==
    /\ state = "RUNNING" /\ pc = "to_allocvec"
    /\ ret' = encoded
    /\ IF encoded.kind = "Ok"
       THEN /\ output' = encoded.val
            /\ pc' = "from_bytes"
            /\ UNCHANGED <<state, reason>>
       ELSE /\ Halt("EncodeFailure")
            /\ UNCHANGED output
    /\ UNCHANGED <<spans, out, call>>

\* let out: Vec<Span> = <decoded>.unwrap();
DecodeUnwrap(decoded) ==
    /\ state = "RUNNING" /\ pc = "from_bytes"
    /\ ret' = decoded
    /\ IF decoded.kind = "Ok"
       THEN /\ out' = decoded.val
            /\ pc' = "assert_eq"
            /\ UNCHANGED <<state, reason>>
       ELSE /\ Halt("DecodeFailure")
            /\ UNCHANGED out
    /\ UNCHANGED <<spans, output, call>>

\* to_allocvec(&spans).unwrap()
Encode ==
    /\ pc = "to_allocvec"
    /\ \E encoded \in {to_allocvec(spans)} : EncodeUnwrap(encoded)

\* from_bytes(&output).unwrap()
Decode ==
    /\ pc = "from_bytes"
    /\ \E decoded \in {from_bytes(output)} : DecodeUnwrap(decoded)

\* the end of the loop body as it would be without the assert_eq!
Compare_NoAssert ==
    /\ state = "RUNNING" /\ pc = "assert_eq"
    /\ pc' = "random_spans"
    /\ spans' = <<>>
    /\ output' = <<>>
    /\ out' = <<>>
    /\ ret' = Pending
    /\ UNCHANGED <<state, reason, call>>

\* assert_eq!(spans, out); and the end of the loop body
Compare ==
    /\ state = "RUNNING" /\ pc = "assert_eq"
    /\ IF VecSpan_eq(spans, out)
       THEN /\ pc' = "random_spans"
            /\ spans' = <<>>
            /\ output' = <<>>
            /\ out' = <<>>
            /\ ret' = Pending
            /\ UNCHANGED <<state, reason>>
       ELSE /\ Halt("MismatchFailure")
            /\ UNCHANGED <<spans, output, out, ret>>
    /\ UNCHANGED call

Next == Generate \/ Encode \/ Decode \/ Compare

Spec == Init /\ [][Next]_vars

-----------------------------------------------------------------------------
(* main against every Result the signatures of to_allocvec and from_bytes  *)
(* allow.  postcard is an external crate: beside what it returns for the   *)
(* batch, main is run against an encoding error, a decoding error and a    *)
(* decoded batch that differs from the original, the three outcomes its    *)
(* unwrap()s and its assert_eq! exist for.                                 *)

EncodeOutcomes(batch) == {to_allocvec(batch), Err(Error("SerializeBufferFull"))}

DecodeOutcomes(batch, bytes) ==
    {from_bytes(bytes), Err(Error("DeserializeUnexpectedEnd")),
     Ok(SubSeq(batch, 1, Len(batch) - 1)), Ok(batch \o <<batch[1]>>),
     Ok([i \in 1..Len(batch) |-> batch[Len(batch) + 1 - i]])}

EncodeAnyOutcome ==
    /\ pc = "to_allocvec"
    /\ \E encoded \in EncodeOutcomes(spans) : EncodeUnwrap(encoded)

DecodeAnyOutcome ==
    /\ pc = "from_bytes"
    /\ \E decoded \in DecodeOutcomes(spans, output) : DecodeUnwrap(decoded)

NextHarness == Generate \/ EncodeAnyOutcome \/ DecodeAnyOutcome \/ Compare

SpecHarness == Init /\ [][NextHarness]_vars

-----------------------------------------------------------------------------
(* The functions one at a time: Init draws a call, the action of the       *)
(* function called applies it and records what it returned.                *)

Done(v) == [kind |-> "Done", val |-> v, err |-> NoError]

RECURSIVE Repeat(_, _)
Repeat(c, n) == IF n = 0 THEN <<>> ELSE c \o Repeat(c, n - 1)

E_ACUTE == <<195, 169>>         \* U+00E9, two bytes
EURO == <<226, 130, 172>>       \* U+20AC, three bytes

\* 24 symbols of the alphabet and no padding: the base64 of 18 bytes
NoPadding24 == Repeat(<<65>>, BASE64_LENGTH)
\* 23 symbols and one '=': the base64 of 17 bytes
OnePadding24 == Repeat(<<65>>, BASE64_LENGTH - 1) \o <<PAD>>
\* the base64 of 16 zero bytes but for a last symbol with a bit no byte takes
TrailingBits24 == Repeat(<<65>>, BASE64_LENGTH - 3) \o <<66, PAD, PAD>>

TextBases ==
    {TraceId_serialize(t) : t \in FewTraceIds} \cup {NoPadding24, OnePadding24, TrailingBits24}

\* 'A', '=', '!', '-', ' ', U+00E9, U+20AC
ReplaceChars == {<<65>>, <<PAD>>, <<33>>, <<45>>, <<32>>, E_ACUTE, EURO}

\* the strings given to TraceId's Deserialize: each base cut short, made longer,
\* and with one character replaced; and two strings of 24 bytes in fewer characters
TextInputs ==
    UNION {{SubSeq(b, 1, k) : k \in 0..Len(b)} : b \in TextBases}
    \cup {b \o Repeat(<<65>>, k) : b \in TextBases, k \in 1..MaxExtraLen}
    \cup UNION {{SubSeq(b, 1, i - 1) \o c \o SubSeq(b, i + 1, Len(b)) :
                    i \in 1..Len(b), c \in ReplaceChars} : b \in TextBases}
    \cup {Repeat(E_ACUTE, 12), Repeat(EURO, 8)}

SpanSamples ==
    {[trace_id |-> t, span_timestamp |-> DateTime_from_timestamp_nanos(n)] :
        t \in FewTraceIds, n \in FewI64}

BatchSamples == UNION {[1..length -> SpanSamples] : length \in 1..MaxBatchLen}

OrdSamples ==
    {[trace_id |-> t, span_timestamp |-> DateTime_from_timestamp_nanos(n)] :
        t \in FewTraceIds \cup {TraceIdLast}, n \in FewI64}

Calls ==
    {[fn |-> "round_trip", arg |-> b] : b \in BatchSamples}
    \cup {[fn |-> "TraceId::deserialize", arg |-> s] : s \in TextInputs}
    \cup {[fn |-> "TraceId::serialize", arg |-> t] : t \in TraceIdSamples}
    \cup {[fn |-> "serde_datetime", arg |-> n] : n \in I64Samples}
    \cup {[fn |-> "Span::cmp", arg |-> <<a, b>>] : a \in OrdSamples, b \in OrdSamples}

InitFn ==
    /\ pc = "call"
    /\ call \in Calls
    /\ ret = Pending
    /\ state = "RUNNING"
    /\ reason = "none"
    /\ spans = <<>>
    /\ output = <<>>
    /\ out = <<>>

Return(r) ==
    /\ ret' = r
    /\ pc' = "return"
    /\ UNCHANGED <<state, reason, spans, output, out, call>>

\* from_bytes(&to_allocvec(&batch)) of any batch
CallRoundTrip ==
    /\ pc = "call" /\ call.fn = "round_trip"
    /\ \E encoded \in {to_allocvec(call.arg)} :
          \E decoded \in {IF encoded.kind = "Ok" THEN from_bytes(encoded.val) ELSE Pending} :
             Return(Done([output |-> encoded, out |-> decoded]))

\* TraceId::deserialize of a deserializer that yields the string
CallTraceIdDeserialize ==
    /\ pc = "call" /\ call.fn = "TraceId::deserialize"
    /\ Return(TraceId_deserialize(Ok(call.arg)))

\* TraceId::serialize to a serializer that keeps the string, then TraceId::deserialize
\* of that string
CallTraceIdSerialize ==
    /\ pc = "call" /\ call.fn = "TraceId::serialize"
    /\ \E text \in {TraceId_serialize(TraceId_new(call.arg))} :
          Return(Done([text |-> text, back |-> TraceId_deserialize(Ok(text))]))

\* serde_datetime::serialize to postcard, then serde_datetime::deserialize from it
CallSerdeDatetime ==
    /\ pc = "call" /\ call.fn = "serde_datetime"
    /\ \E bytes \in {postcard_serialize_i64(
                        serde_datetime_serialize(DateTime_from_timestamp_nanos(call.arg)))} :
          \E n \in {postcard_deserialize_i64(bytes, 1)} :
             Return(Done([bytes |-> bytes,
                          back |-> serde_datetime_deserialize(
                                      IF n.kind = "Ok" THEN Ok(n.val[1]) ELSE n)]))

\* a.cmp(&b) and a == b
CallSpanCmp ==
    /\ pc = "call" /\ call.fn = "Span::cmp"
    /\ Return(Done([cmp |-> Span_cmp(call.arg[1], call.arg[2]),
                    eq |-> Span_eq(call.arg[1], call.arg[2])]))

NextFn ==
    CallRoundTrip \/ CallTraceIdDeserialize \/ CallTraceIdSerialize
    \/ CallSerdeDatetime \/ CallSpanCmp

SpecFn == InitFn /\ [][NextFn]_vars

-----------------------------------------------------------------------------
(* The claims.                                                             *)

Returned(f) == pc = "return" /\ call.fn = f

\* C1. Round-trip law: every batch (any trace ids, any i64 timestamps, negative ones
\* and i64::MIN and i64::MAX among them) is encoded without error, the encoding is
\* decoded without error, and the decoded batch has the length of the original and,
\* place by place, the same trace_id bytes and the same nanosecond count.
C1_RoundTripLaw ==
    Returned("round_trip") =>
        /\ ret.val.output.kind = "Ok"
        /\ ret.val.out.kind = "Ok"
        /\ Len(ret.val.out.val) = Len(call.arg)
        /\ \A i \in 1..Len(call.arg) :
              /\ \A j \in 1..TRACE_ID_BYTES :
                    ret.val.out.val[i].trace_id[j] = call.arg[i].trace_id[j]
              /\ \A j \in 1..I64_BITS :
                    ret.val.out.val[i].span_timestamp.timestamp_nanos[j]
                    = call.arg[i].span_timestamp.timestamp_nanos[j]

\* a batch of two different spans, the first before the epoch, has been round-tripped
C1_Witness ==
    /\ Returned("round_trip")
    /\ Len(call.arg) = 2
    /\ call.arg[1].trace_id # call.arg[2].trace_id
    /\ call.arg[1].span_timestamp.timestamp_nanos = I64_MIN
    /\ call.arg[2].span_timestamp.timestamp_nanos = I64_MAX
    /\ ret.val.out.kind = "Ok"

\* C2, as amended. A string whose length in bytes is not 24 is refused with the
\* length error, which carries 24 and the length in bytes; nothing is decoded, no
\* panic, no TraceId.
C2_RejectsBadByteLength ==
    (Returned("TraceId::deserialize") /\ Len(call.arg) # 24) =>
        /\ ret.kind = "Err"
        /\ ret.err.error = "LengthMismatch"
        /\ ret.err.expected = 24
        /\ ret.err.actual = Len(call.arg)

\* a string of 24 characters in 25 bytes has been refused for its length
C2_Witness ==
    /\ Returned("TraceId::deserialize")
    /\ CharCount(call.arg) = 24
    /\ Len(call.arg) = 25
    /\ ret.kind = "Err"
    /\ ret.err.error = "LengthMismatch"

\* C2, as stated. A string whose length in characters is not 24 is refused with the
\* length error carrying 24 and the actual length.
C2_RejectsBadCharLength ==
    (Returned("TraceId::deserialize") /\ CharCount(call.arg) # 24) =>
        /\ ret.kind = "Err"
        /\ ret.err.error = "LengthMismatch"
        /\ ret.err.expected = 24
        /\ ret.err.actual \in {CharCount(call.arg), Len(call.arg)}

\* C3. TraceId text round-trip: the string TraceId's Serialize writes for
\* TraceId::new(t) is deserialized without error to a TraceId whose bytes are t.
C3_TextRoundTrip ==
    Returned("TraceId::serialize") =>
        /\ ret.val.back.kind = "Ok"
        /\ Len(ret.val.back.val) = TRACE_ID_BYTES
        /\ \A j \in 1..TRACE_ID_BYTES : ret.val.back.val[j] = call.arg[j]

\* the trace id 1, 2, .., 16 has been written as "AQIDBAUGBwgJCgsMDQ4PEA==" and read back
C3_Witness ==
    /\ Returned("TraceId::serialize")
    /\ call.arg = TraceIdRamp
    /\ ret.val.text = <<65, 81, 73, 68, 66, 65, 85, 71, 66, 119, 103, 74,
                        67, 103, 115, 77, 68, 81, 52, 80, 69, 65, 61, 61>>
    /\ ret.val.back.kind = "Ok"

\* C4. TraceId length invariant: the string TraceId's Serialize writes is 24 bytes
\* and 24 characters long, which is BASE64_LENGTH, ends with the padding "==", and
\* is not refused for its length by the deserializer.
C4_TextLength ==
    Returned("TraceId::serialize") =>
        /\ Len(ret.val.text) = 24
        /\ CharCount(ret.val.text) = 24
        /\ BASE64_LENGTH = 24
        /\ ret.val.text[23] = PAD /\ ret.val.text[24] = PAD
        /\ ret.val.back.err.error # "LengthMismatch"

\* sixteen zero bytes have been written as "AAAAAAAAAAAAAAAAAAAAAA=="
C4_Witness ==
    /\ Returned("TraceId::serialize")
    /\ call.arg = TraceIdZero
    /\ ret.val.text = Repeat(<<65>>, 22) \o <<PAD, PAD>>

\* bytes[p..] is, span after span from batch[i] on, the byte 24, 24 bytes that are
\* the standard base64 of the trace id, and the zigzag varint of the nanosecond count
RECURSIVE Base64Wire(_, _, _, _)
Base64Wire(bytes, p, batch, i) ==
    IF i > Len(batch) THEN p = Len(bytes) + 1
    ELSE LET nanos == VarintEncode(ZigZagEncode(batch[i].span_timestamp.timestamp_nanos))
             q == p + 1 + BASE64_LENGTH
         IN /\ q + Len(nanos) - 1 <= Len(bytes)
            /\ bytes[p] = BASE64_LENGTH
            /\ BASE64_STANDARD_decode(SubSeq(bytes, p + 1, q - 1)).kind = "Ok"
            /\ BASE64_STANDARD_decode(SubSeq(bytes, p + 1, q - 1)).val = batch[i].trace_id
            /\ SubSeq(bytes, q, q + Len(nanos) - 1) = nanos
            /\ Base64Wire(bytes, q + Len(nanos), batch, i + 1)

\* bytes[p..] is, span after span from batch[i] on, the 16 bytes of the trace id and
\* the zigzag varint of the nanosecond count
RECURSIVE RawWire(_, _, _, _)
RawWire(bytes, p, batch, i) ==
    IF i > Len(batch) THEN p = Len(bytes) + 1
    ELSE LET nanos == VarintEncode(ZigZagEncode(batch[i].span_timestamp.timestamp_nanos))
             q == p + TRACE_ID_BYTES
         IN /\ q + Len(nanos) - 1 <= Len(bytes)
            /\ SubSeq(bytes, p, q - 1) = batch[i].trace_id
            /\ SubSeq(bytes, q, q + Len(nanos) - 1) = nanos
            /\ RawWire(bytes, q + Len(nanos), batch, i + 1)

\* C5, as amended. Binary wire format: after the batch length, each Span is its
\* trace id as a string, the length byte 24 and the 24 characters of the standard
\* base64 of the 16 bytes, followed by its nanosecond count as a signed 64-bit
\* integer (postcard's zigzag varint).
C5_WireFormatBase64 ==
    Returned("round_trip") =>
        /\ ret.val.output.kind = "Ok"
        /\ ret.val.output.val[1] = Len(call.arg)
        /\ Base64Wire(ret.val.output.val, 2, call.arg, 1)

\* a batch of two spans has been encoded, in more bytes than raw trace ids would take
C5_Witness ==
    /\ Returned("round_trip")
    /\ Len(call.arg) = 2
    /\ call.arg[1].trace_id = TraceIdOnes
    /\ Len(ret.val.output.val) >= 1 + 2 * (1 + BASE64_LENGTH + 1)

\* C5, as stated. Binary wire format: after the batch length, each Span is the 16
\* raw bytes of its trace id followed by its nanosecond count as a signed 64-bit
\* integer.
C5_WireFormatRaw ==
    Returned("round_trip") =>
        /\ ret.val.output.kind = "Ok"
        /\ ret.val.output.val[1] = Len(call.arg)
        /\ RawWire(ret.val.output.val, 2, call.arg, 1)


\* what one step of the harness may do
C6_Step ==
    \* HALTED is terminal
    /\ state = "HALTED" => vars' = vars
    \* an encoding error halts with EncodeFailure, and nothing else does
    /\ (state = "RUNNING" /\ pc = "to_allocvec") =>
          IF ret'.kind = "Ok"
          THEN state' = "RUNNING" /\ pc' = "from_bytes" /\ output' = ret'.val
          ELSE state' = "HALTED" /\ reason' = "EncodeFailure"
    \* a decoding error halts with DecodeFailure, and nothing else does
    /\ (state = "RUNNING" /\ pc = "from_bytes") =>
          IF ret'.kind = "Ok"
          THEN state' = "RUNNING" /\ pc' = "assert_eq" /\ out' = ret'.val
          ELSE state' = "HALTED" /\ reason' = "DecodeFailure"
    \* a decoded batch that differs halts with MismatchFailure, an equal one starts
    \* the next iteration
    /\ (state = "RUNNING" /\ pc = "assert_eq") =>
          IF out = spans
          THEN state' = "RUNNING" /\ pc' = "random_spans" /\ reason' = "none"
          ELSE state' = "HALTED" /\ reason' = "MismatchFailure"
    \* the next iteration starts only after all three went well
    /\ (pc # "random_spans" /\ pc' = "random_spans") =>
          /\ state' = "RUNNING"
          /\ pc = "assert_eq"
          /\ ret.kind = "Ok" /\ out = ret.val /\ out = spans
          /\ Len(output) > 0
    \* generating a batch never halts
    /\ (state = "RUNNING" /\ pc = "random_spans") => state' = "RUNNING"

\* C6. Harness state machine: the harness starts RUNNING; an iteration returns to
\* RUNNING only when encoding succeeded, decoding succeeded and the decoded batch
\* equals the original; an encoding error, a decoding error and a differing batch
\* halt it with EncodeFailure, DecodeFailure and MismatchFailure; nothing runs after
\* a halt.
C6_HarnessStateMachine == (state = "RUNNING" /\ pc = "random_spans") /\ [][C6_Step]_vars

\* the harness has halted on a decoded batch that differs from the original
C6_Witness ==
    /\ state = "HALTED"
    /\ reason = "MismatchFailure"
    /\ Len(spans) = 2
    /\ out = <<spans[2], spans[1]>>

\* C7. DateTime is lossless over all of i64: the nanosecond count written by
\* serde_datetime::serialize as a signed 64-bit integer is read back by
\* serde_datetime::deserialize as a DateTime with that same count, bit for bit.
C7_DateTimeLossless ==
    Returned("serde_datetime") =>
        /\ ret.val.back.kind = "Ok"
        /\ \A j \in 1..I64_BITS :
              DateTime_into_timestamp_nanos(ret.val.back.val)[j] = call.arg[j]

\* i64::MIN has been written, in ten bytes, and read back
C7_Witness ==
    /\ Returned("serde_datetime")
    /\ call.arg = I64_MIN
    /\ Len(ret.val.bytes) = VARINT_MAX_U64
    /\ ret.val.back.kind = "Ok"

\* a is byte-wise less than b: at the first place they differ, a's byte is smaller
BytewiseLess(a, b) ==
    \E i \in 1..TRACE_ID_BYTES : a[i] < b[i] /\ \A j \in 1..(i - 1) : a[j] = b[j]

\* a is numerically less than b, both two's complement: at the highest bit they
\* differ in, a has the 1 if that is the sign bit and the 0 if it is not
NumericLess(a, b) ==
    \E i \in 1..I64_BITS :
        /\ a[i] # b[i]
        /\ \A j \in (i + 1)..I64_BITS : a[j] = b[j]
        /\ a[i] = (IF i = I64_BITS THEN 1 ELSE 0)

\* C8. Span ordering is lexicographic: a < b exactly when a.trace_id is byte-wise
\* less, or the trace ids are equal and a's nanosecond count is numerically less;
\* a == b exactly when both fields are equal.
C8_SpanOrdering ==
    Returned("Span::cmp") =>
        LET a == call.arg[1]
            b == call.arg[2]
        IN /\ (ret.val.cmp = "Less") <=>
                 \/ BytewiseLess(a.trace_id, b.trace_id)
                 \/ /\ a.trace_id = b.trace_id
                    /\ NumericLess(a.span_timestamp.timestamp_nanos,
                                   b.span_timestamp.timestamp_nanos)
           /\ ret.val.eq <=>
                 /\ a.trace_id = b.trace_id
                 /\ a.span_timestamp.timestamp_nanos = b.span_timestamp.timestamp_nanos
           /\ (ret.val.cmp = "Equal") <=> ret.val.eq

\* a span with the greater trace id and a timestamp before the epoch has been
\* compared with one with the smaller trace id and the greatest timestamp
C8_Witness ==
    /\ Returned("Span::cmp")
    /\ call.arg[1].trace_id = TraceIdLast
    /\ call.arg[2].trace_id = TraceIdZero
    /\ call.arg[1].span_timestamp.timestamp_nanos = BitNot(I64_ZERO)
    /\ call.arg[2].span_timestamp.timestamp_nanos = I64_MAX
    /\ ret.val.cmp = "Greater"

C10_DecodeErrorNotPanic ==
    (Returned("TraceId::deserialize") /\ Len(call.arg) = 24 /\ CharCount(call.arg) = 24) =>
        \/ /\ ret.kind = "Ok"
           /\ BASE64_STANDARD_decode(call.arg).kind = "Ok"
           /\ Len(BASE64_STANDARD_decode(call.arg).val) = TRACE_ID_BYTES
           /\ ret.val = BASE64_STANDARD_decode(call.arg).val
        \/ /\ ret.kind = "Err"
           /\ ret.err.error = "DecodeError"
           /\ ret.err.cause # "none"

=============================================================================
